---- MODULE Spec2Model ----
(***************************************************************************)
(* A model of the bootsector crate: the MBR decoder (src/src/mbr.rs), the  *)
(* table orchestrator `open` and its GPT decoder `read_gpt`                *)
(* (src/src/lib.rs), the GPT decoder `read_` (src/src/gpt.rs) and the      *)
(* bounded RangeReader (src/src/rangereader.rs).                           *)
(*                                                                         *)
(* Byte buffers are modelled sparsely: a buffer is a record                *)
(* [len, nz] where nz maps the offsets holding a non-zero byte to that     *)
(* byte; every other offset below len holds 0.  Unsigned integers that     *)
(* the code reads from the disk (u16, u32, u64) are little-endian          *)
(* sequences of base-256 digits, exactly as they lie on the disk, and the  *)
(* arithmetic of the code is done on those digits, so that values up to    *)
(* 2^64 and their overflow are represented at their true width.            *)
(***************************************************************************)
EXTENDS Integers, Sequences, FiniteSets, TLC

(***************************************************************************)
(* Multi-digit unsigned integers (little-endian, base 256).                *)
(***************************************************************************)
Max(a, b) == IF a >= b THEN a ELSE b

Min(a, b) == IF a <= b THEN a ELSE b

Digit(a, i) == IF i <= Len(a) THEN a[i] ELSE 0

RECURSIVE BigCmpFrom(_, _, _)
BigCmpFrom(a, b, i) ==
    IF i = 0 THEN 0
    ELSE IF Digit(a, i) < Digit(b, i) THEN -1
    ELSE IF Digit(a, i) > Digit(b, i) THEN 1
    ELSE BigCmpFrom(a, b, i - 1)

BigCmp(a, b) == BigCmpFrom(a, b, Max(Len(a), Len(b)))

BigLt(a, b) == BigCmp(a, b) < 0

BigLe(a, b) == BigCmp(a, b) <= 0

BigEq(a, b) == BigCmp(a, b) = 0

RECURSIVE Pow256(_)
Pow256(k) == IF k = 0 THEN 1 ELSE 256 * Pow256(k - 1)

\* The w-digit representation of a small natural n (n < 2^31).
BigOfInt(n, w) == [i \in 1..w |-> IF i <= 4 THEN (n \div Pow256(i - 1)) % 256 ELSE 0]

\* a fits in w digits
Fits(a, w) == \A i \in 1..Len(a) : i > w => a[i] = 0

\* a modulo 2^(8w), as w digits
Wrap(a, w) == [i \in 1..w |-> Digit(a, i)]

\* The value of a as a small natural; only used where Fits(a, 3).
BigToInt(a) == Digit(a, 1) + 256 * Digit(a, 2) + 65536 * Digit(a, 3)

RECURSIVE BigAddFrom(_, _, _, _, _)
BigAddFrom(a, b, i, n, carry) ==
    IF i > n THEN <<carry>>
    ELSE LET s == Digit(a, i) + Digit(b, i) + carry
         IN  <<s % 256>> \o BigAddFrom(a, b, i + 1, n, s \div 256)

\* a + b, exact (one digit longer than the longer operand)
BigAdd(a, b) == BigAddFrom(a, b, 1, Max(Len(a), Len(b)), 0)

RECURSIVE BigSubFrom(_, _, _, _, _)
BigSubFrom(a, b, i, n, borrow) ==
    IF i > n THEN << >>
    ELSE LET d == Digit(a, i) - Digit(b, i) - borrow
         IN  <<IF d < 0 THEN d + 256 ELSE d>>
             \o BigSubFrom(a, b, i + 1, n, IF d < 0 THEN 1 ELSE 0)

\* a - b, for a >= b
BigSub(a, b) == BigSubFrom(a, b, 1, Max(Len(a), Len(b)), 0)

RECURSIVE BigMulFrom(_, _, _, _)
BigMulFrom(a, m, i, carry) ==
    IF i > Len(a) + 3 THEN << >>
    ELSE LET p == Digit(a, i) * m + carry
         IN  <<p % 256>> \o BigMulFrom(a, m, i + 1, p \div 256)

\* a * m, exact, for a small natural m (m < 2^22); three digits longer than a
BigMulInt(a, m) == BigMulFrom(a, m, 1, 0)

RECURSIVE BigDivFrom(_, _, _, _)
BigDivFrom(a, m, i, rem) ==
    IF i = 0 THEN << >>
    ELSE LET cur == rem * 256 + a[i]
         IN  BigDivFrom(a, m, i - 1, cur % m) \o <<cur \div m>>

\* floor(a / m), for a small natural m > 0 (m < 2^22)
BigDivInt(a, m) == BigDivFrom(a, m, Len(a), 0)

\* u64::MAX
U64_MAX == [i \in 1..8 |-> 255]

(***************************************************************************)
(* Byte buffers.                                                           *)
(***************************************************************************)
At(b, i) == IF i \in DOMAIN b.nz THEN b.nz[i] ELSE 0

\* the bytes of b at lo..hi-1 as a sequence (a little-endian integer)
Digits(b, lo, hi) == [i \in 1..(hi - lo) |-> At(b, lo + i - 1)]

\* the map off |-> s[1], off + 1 |-> s[2], ...
RECURSIVE SeqMap(_, _, _, _)
SeqMap(off, s, lo, hi) ==
    IF lo > hi THEN << >>
    ELSE IF lo = hi THEN (off + lo - 1) :> s[lo]
    ELSE SeqMap(off, s, lo, (lo + hi) \div 2) @@ SeqMap(off, s, (lo + hi) \div 2 + 1, hi)

\* b with the sequence s stored from offset off on
WithBytes(b, off, s) == [b EXCEPT !.nz = SeqMap(off, s, 1, Len(s)) @@ b.nz]

\* b with byte v stored at offset i
WithByte(b, i, v) == [b EXCEPT !.nz = (i :> v) @@ b.nz]

\* whether every byte of b at lo..hi-1 is zero
all_zero(b, lo, hi) == \A i \in DOMAIN b.nz : (lo <= i /\ i < hi) => b.nz[i] = 0

\* a buffer of buflen zero bytes whose first n bytes are then read from
\* b at offset lo
Window(b, lo, n, buflen) ==
    [len |-> buflen,
     nz  |-> [i \in {k - lo : k \in {j \in DOMAIN b.nz : j >= lo /\ j < lo + n}}
                |-> b.nz[i + lo]]]

Zeros(n) == [len |-> n, nz |-> << >>]

(***************************************************************************)
(* CRC-32/ISO-HDLC (reflected polynomial 0xEDB88320, initial value and     *)
(* final xor 0xFFFFFFFF), table driven, on 32-bit values held as four      *)
(* little-endian bytes.                                                    *)
(***************************************************************************)
RECURSIVE XorBits(_, _, _)
XorBits(a, b, n) ==
    IF n = 0 THEN 0
    ELSE ((a + b) % 2) + 2 * XorBits(a \div 2, b \div 2, n - 1)

\* <<a xor lo, ..., a xor hi>>
RECURSIVE XorNibbleRowFrom(_, _, _)
XorNibbleRowFrom(a, lo, hi) ==
    IF lo = hi THEN <<XorBits(a, lo, 4)>>
    ELSE XorNibbleRowFrom(a, lo, (lo + hi) \div 2)
         \o XorNibbleRowFrom(a, (lo + hi) \div 2 + 1, hi)

XorNibbleRow(a) == XorNibbleRowFrom(a, 0, 15)

RECURSIVE XorNibbleFrom(_, _)
XorNibbleFrom(lo, hi) ==
    IF lo = hi THEN <<XorNibbleRow(lo)>>
    ELSE XorNibbleFrom(lo, (lo + hi) \div 2) \o XorNibbleFrom((lo + hi) \div 2 + 1, hi)

\* XorNibble[a + 1][b + 1] = a xor b, for a, b in 0..15
XorNibble == XorNibbleFrom(0, 15)

Xor8(a, b) ==
    16 * XorNibble[(a \div 16) + 1][(b \div 16) + 1] + XorNibble[(a % 16) + 1][(b % 16) + 1]

Xor32(x, y) == <<Xor8(x[1], y[1]), Xor8(x[2], y[2]), Xor8(x[3], y[3]), Xor8(x[4], y[4])>>

\* x >> 1
Shr1(x) ==
    <<(x[1] \div 2) + (x[2] % 2) * 128, (x[2] \div 2) + (x[3] % 2) * 128,
      (x[3] \div 2) + (x[4] % 2) * 128, x[4] \div 2>>

\* x >> 8
Shr8(x) == <<x[2], x[3], x[4], 0>>

CrcPoly == <<32, 131, 184, 237>>

RECURSIVE CrcTableEntry(_, _)
CrcTableEntry(x, k) ==
    IF k = 0 THEN x
    ELSE CrcTableEntry(IF x[1] % 2 = 1 THEN Xor32(Shr1(x), CrcPoly) ELSE Shr1(x), k - 1)

CrcTableAt(i) == CrcTableEntry(<<i, 0, 0, 0>>, 8)

RECURSIVE CrcTableFrom(_, _)
CrcTableFrom(lo, hi) ==
    IF lo = hi THEN <<CrcTableAt(lo)>>
    ELSE CrcTableFrom(lo, (lo + hi) \div 2) \o CrcTableFrom((lo + hi) \div 2 + 1, hi)

\* CrcTable[i + 1] is the table entry of index i, for i in 0..255
CrcTable == CrcTableFrom(0, 255)

CrcUpdate(st, byte) == Xor32(CrcTable[Xor8(st[1], byte) + 1], Shr8(st))

RECURSIVE CrcRange(_, _, _, _)
CrcRange(st, b, lo, hi) ==
    IF hi <= lo THEN st
    ELSE IF hi = lo + 1 THEN CrcUpdate(st, At(b, lo))
    ELSE LET mid  == (lo + hi) \div 2
             left == CrcRange(st, b, lo, mid)
         \* the test has the left half evaluated first
         IN  IF left[1] >= 0 THEN CrcRange(left, b, mid, hi) ELSE left

\* Crc::<u32>::new(&CRC_32_ISO_HDLC).checksum(&b[lo..hi])
checksum(b, lo, hi) ==
    Xor32(CrcRange(<<255, 255, 255, 255>>, b, lo, hi), <<255, 255, 255, 255>>)

(***************************************************************************)
(* Bounds of the model.                                                    *)
(***************************************************************************)
\* length of the byte source under the RangeReader
SrcLen == 8

\* largest first_byte and len a RangeReader is built with
MaxFirst == 3

MaxLen == 6

\* largest buffer handed to read and read_exact
MaxBuf == 3

\* largest distance of a seek
MaxDist == 3

\* the source's cursor is not moved beyond this offset
MaxPos == 12

VARIABLES
    inner,       \* RangeReader.inner: the source, [data, pos]
    first_byte,  \* RangeReader.first_byte
    end,         \* RangeReader.end
    last         \* the last call on the RangeReader and what it returned

rrvars == <<inner, first_byte, end, last>>

(***************************************************************************)
(* RangeReader (src/src/rangereader.rs).  The source is a cursor over a    *)
(* byte array: it may be positioned anywhere, reads nothing at or after    *)
(* its end, and a read may deliver fewer bytes than asked for.             *)
(***************************************************************************)
SrcData == [i \in 1..SrcLen |-> 10 + i]

Ok(v) == [ok |-> TRUE, val |-> v]

Err(e) == [ok |-> FALSE, err |-> e]

\* the bytes of source d at offsets p .. p+n-1
Bytes(d, p, n) == [i \in 1..n |-> d[p + i]]

\* what is left of the source from offset p on
Remaining(d, p) == IF p >= Len(d) THEN 0 ELSE Len(d) - p

\* check_valid_position: Ok(()) or IllegalCursorPosition
check_valid_position(fb, e, pos) == ~(pos < fb \/ pos > e)

available_unclamped(e, current_real, buflen) == buflen

\* read: the clamped length handed to the source
available(e, current_real, buflen) == Min(e - current_real, buflen)

(***************************************************************************)
(* The partition model and the MBR decoder (src/src/mbr.rs), as `open`     *)
(* (src/src/lib.rs) uses it.  A Partition is [id, first_byte, len,         *)
(* attributes]; first_byte and len are u64 values (8 digits).  mbr.rs      *)
(* keeps bootable and type_code in the Partition itself; lib.rs reads      *)
(* them as attributes: MBR {bootable, type_code}, which is how they are    *)
(* held here.                                                              *)
(***************************************************************************)
MBRAttributes(bootable, type_code) ==
    [tag |-> "MBR", bootable |-> bootable, type_code |-> type_code]

Partition(id, fb, len, attributes) ==
    [id |-> id, first_byte |-> fb, len |-> len, attributes |-> attributes]

\* LittleEndian::read_u32(&b[off..]) / le::read_u32
read_u32(b, off) == Digits(b, off, off + 4)

\* LittleEndian::read_u64(&b[off..]) / le::read_u64
read_u64(b, off) == Digits(b, off, off + 8)

\* LittleEndian::read_u16(&b[off..]) / le::read_u16
read_u16(b, off) == Digits(b, off, off + 2)

\* a as u64 * b as u64, for values whose product the code keeps below 2^64
MulU64(a, m) == Wrap(BigMulInt(a, m), 8)

AddU64(a, b) == Wrap(BigAdd(a, b), 8)

mbr_entry_id_dense(partitions, entry_id) == Len(partitions)

\* the id given to the partition decoded from slot entry_id
mbr_entry_id(partitions, entry_id) == entry_id

\* the len of the entry at entry_offset, whose first_byte is fb
mbr_entry_len(sector, entry_offset, fb, sector_size) ==
    AddU64(fb, MulU64(read_u32(sector, entry_offset + 12), sector_size))

invalid_status_high_only(status) == status > 128

\* mbr.rs 45-58: the status byte is neither 0x00 nor 0x80
invalid_status(status) == status \notin {0, 128}

\* parse_partition_table, from slot entry_id on, with the partitions so far
RECURSIVE parse_entries(_, _, _, _)
parse_entries(sector, sector_size, entry_id, partitions) ==
    IF entry_id = 4 THEN [ok |-> TRUE, val |-> partitions]
    ELSE
      LET first_entry_offset == 446
          entry_size   == 16
          entry_offset == first_entry_offset + entry_id * entry_size
          status       == At(sector, entry_offset)
          type_code    == At(sector, entry_offset + 4)
          fb           == MulU64(read_u32(sector, entry_offset + 8), sector_size)
          len          == mbr_entry_len(sector, entry_offset, fb, sector_size)
      IN  IF invalid_status(status)
          THEN [ok |-> FALSE,
                err |-> [what |-> "invalid status code in partition",
                         entry_id |-> entry_id, status |-> status]]
          ELSE IF type_code = 0
          THEN parse_entries(sector, sector_size, entry_id + 1, partitions)
          ELSE parse_entries(sector, sector_size, entry_id + 1,
                   Append(partitions,
                          Partition(mbr_entry_id(partitions, entry_id), fb, len,
                                    MBRAttributes(status = 128, type_code))))

\* mbr::parse_partition_table(sector, sector_size)
parse_partition_table(sector, sector_size) ==
    parse_entries(sector, sector_size, 0, << >>)

\* 16 * 1024 as a u64
SixteenKiB == BigOfInt(16384, 8)

\* gpt::is_protective
is_protective(partition) ==
    /\ partition.attributes.tag = "MBR"
    /\ partition.attributes.bootable = FALSE
    /\ partition.attributes.type_code = 238
    /\ 0 = partition.id
    /\ BigLe(partition.first_byte, SixteenKiB)

\* lib.rs protective: the test `open` applies to a one-entry MBR table
protective(partition) ==
    LET sector_size_guess  == partition.first_byte
        minimum_gpt_length == AddU64(BigOfInt(128 * 128, 8), sector_size_guess)
    IN  /\ partition.attributes.tag = "MBR"
        /\ partition.attributes.bootable = FALSE
        /\ partition.attributes.type_code = 238
        /\ 0 = partition.id
        /\ BigLe(partition.first_byte, SixteenKiB)
        /\ BigLe(minimum_gpt_length, partition.len)

(***************************************************************************)
(* The outcome of a decoder: a partition list, one error, or a panic (a    *)
(* failed assertion, an out-of-range slice, an arithmetic overflow in a    *)
(* build that checks for it).                                              *)
(***************************************************************************)
OkParts(parts) == [kind |-> "Ok", parts |-> parts]

Error(e) == [kind |-> "Err", err |-> e, info |-> << >>]

ErrorWith(e, info) == [kind |-> "Err", err |-> e, info |-> info]

Panic(what) == [kind |-> "Panic", what |-> what]

\* the locals of a decoder once every header check has passed
Header(hs, ful, lul, n, es, tcrc) ==
    [kind |-> "Hdr", header_size |-> hs, first_usable_lba |-> ful,
     last_usable_lba |-> lul, entries |-> n, entry_size |-> es, table_crc |-> tcrc]

\* b"EFI PART"
EFI_PART == <<69, 70, 73, 32, 80, 65, 82, 84>>

\* gpt.rs: const MAX_SECTOR_SIZE
MAX_SECTOR_SIZE == 520

\* gpt.rs: the length of the table's backing array
TABLE_BACKING == 24576

U16_MAX == BigOfInt(65535, 4)

\* entry_size * entries, exact
TableBytes(entry_size, entries) == BigMulInt(BigOfInt(entry_size, 4), entries)

FirstUsableFloorFromOne(entry_size, entries, sector_size) ==
    BigAdd(BigOfInt(1, 8), BigDivInt(TableBytes(entry_size, entries), sector_size))

\* 2 + (entry_size * entries) / sector_size
FirstUsableFloor(entry_size, entries, sector_size) ==
    BigAdd(BigOfInt(2, 8), BigDivInt(TableBytes(entry_size, entries), sector_size))

\* header_crc != checksum(&lba1[..header_size]), lba1 with its CRC field zeroed
header_checksum_mismatch(header_crc, zeroed, header_size) ==
    header_crc # checksum(zeroed, 0, header_size)

(***************************************************************************)
(* gpt.rs read_, lines 73-155: the checks of the header sector lba1 (a     *)
(* buffer of MAX_SECTOR_SIZE bytes), in the order of the code.             *)
(***************************************************************************)
read__header(lba1, sector_size) ==
    LET header_size32 == read_u32(lba1, 12)
        header_crc    == read_u32(lba1, 16)
        zeroed        == WithBytes(lba1, 16, <<0, 0, 0, 0>>)
        first_usable_lba == read_u64(zeroed, 40)
        last_usable_lba  == read_u64(zeroed, 48)
        entries32     == read_u32(zeroed, 80)
        entry_size32  == read_u32(zeroed, 84)
        table_crc     == read_u32(zeroed, 88)
    IN  IF Digits(lba1, 0, 8) # EFI_PART THEN Error("BadEFISignature")
        ELSE IF Digits(lba1, 8, 12) # <<0, 0, 1, 0>> THEN Error("UnsupportedRevision")
        ELSE IF BigLt(header_size32, BigOfInt(92, 4)) THEN Error("HeaderTooShort")
        \* usize::try_from(header_size) cannot fail where usize has 32 bits or more
        ELSE IF BigLt(BigOfInt(lba1.len, 4), header_size32)
        THEN Panic("&lba1[..header_size]: range end out of bounds")
        ELSE
        LET header_size == BigToInt(header_size32)
        IN  IF header_checksum_mismatch(header_crc, zeroed, header_size)
            THEN Error("HeaderChecksumMismatch")
            ELSE IF ~BigEq(read_u32(zeroed, 20), <<0>>)
            THEN Error("UnsupportedDataInReservedField")
            ELSE IF ~BigEq(read_u64(zeroed, 24), <<1>>)
            THEN Error("CurrentLbaMustBeOneInFirstHeader")
            ELSE IF BigLt(last_usable_lba, first_usable_lba) THEN Error("BackwardLbas")
            ELSE IF sector_size = 0 THEN Panic("attempt to divide by zero")
            ELSE IF BigLt(BigDivInt(U64_MAX, sector_size), last_usable_lba)
            THEN Error("EverythingMustBeBelowSixtyFourToThePowerOfTwo")
            ELSE IF ~BigEq(read_u64(zeroed, 72), <<2>>) THEN Error("StartingLbaMustBeTwo")
            ELSE IF BigLt(U16_MAX, entries32) THEN Error("EntryCountIsImplausible")
            ELSE IF BigLt(U16_MAX, entry_size32) THEN Error("EntrySizeIsImplausiblyLarge")
            ELSE IF BigLt(entry_size32, BigOfInt(128, 4))
            THEN Error("EntrySizeIsImplausiblySmall")
            ELSE
            LET entries    == BigToInt(entries32)
                entry_size == BigToInt(entry_size32)
            IN  IF BigLt(first_usable_lba,
                         FirstUsableFloor(entry_size, entries, sector_size))
                THEN Error("FirstUsableLbaIsTooLow")
                ELSE IF ~all_zero(zeroed, header_size, lba1.len)
                THEN Error("ReservedHeaderTailIsNotAllEmpty")
                ELSE Header(header_size, first_usable_lba, last_usable_lba,
                            entries, entry_size, table_crc)

(***************************************************************************)
(* lib.rs read_gpt, lines 138-214: the same checks on lba1, a buffer of    *)
(* sector_size bytes; a slice of lba1 that reaches beyond it panics.  The  *)
(* errors are io::Error values of kind InvalidData with these messages.    *)
(***************************************************************************)
read_gpt_header(lba1, sector_size) ==
    LET header_size32 == read_u32(lba1, 12)
        header_crc    == read_u32(lba1, 16)
        zeroed        == WithBytes(lba1, 16, <<0, 0, 0, 0>>)
        first_usable_lba == read_u64(zeroed, 40)
        last_usable_lba  == read_u64(zeroed, 48)
        entries32     == read_u32(zeroed, 80)
        entry_size32  == read_u32(zeroed, 84)
        table_crc     == read_u32(zeroed, 88)
    IN  IF lba1.len < 8 THEN Panic("&lba1[0x00..0x08]: range end out of bounds")
        ELSE IF Digits(lba1, 0, 8) # EFI_PART THEN Error("bad EFI signature")
        ELSE IF lba1.len < 12 THEN Panic("&lba1[0x08..0x0c]: range end out of bounds")
        ELSE IF Digits(lba1, 8, 12) # <<0, 0, 1, 0>> THEN Error("unsupported revision")
        ELSE IF lba1.len < 16 THEN Panic("&lba1[0x0c..0x10]: range end out of bounds")
        ELSE IF BigLt(header_size32, BigOfInt(92, 4)) THEN Error("header too short")
        ELSE IF lba1.len < 20 THEN Panic("&lba1[0x10..0x14]: range end out of bounds")
        ELSE IF BigLt(BigOfInt(lba1.len, 4), header_size32)
        THEN Panic("&lba1[..header_size]: range end out of bounds")
        ELSE
        LET header_size == BigToInt(header_size32)
        IN  IF header_checksum_mismatch(header_crc, zeroed, header_size)
            THEN Error("header checksum mismatch")
            ELSE IF ~BigEq(read_u32(zeroed, 20), <<0>>)
            THEN Error("unsupported data in reserved field 0x0c")
            ELSE IF ~BigEq(read_u64(zeroed, 24), <<1>>)
            THEN Error("current lba must be '1' for first header")
            ELSE IF BigLt(last_usable_lba, first_usable_lba)
            THEN Error("usable lbas are backwards?!")
            ELSE IF BigLt(BigDivInt(U64_MAX, sector_size), last_usable_lba)
            THEN Error("everything must be below the 2^64 point (~ eighteen million TB)")
            ELSE IF ~BigEq(read_u64(zeroed, 72), <<2>>)
            THEN Error("starting lba must be '2' for first header")
            ELSE IF BigLt(U16_MAX, entries32) THEN Error("entry count is implausible")
            ELSE IF BigLt(entry_size32, BigOfInt(128, 4)) \/ BigLt(U16_MAX, entry_size32)
            THEN Error("entry size is implausible")
            ELSE
            LET entries    == BigToInt(entries32)
                entry_size == BigToInt(entry_size32)
            IN  IF BigLt(first_usable_lba,
                         FirstUsableFloor(entry_size, entries, sector_size))
                THEN Error("first usable lba is too low")
                ELSE IF ~all_zero(zeroed, header_size, lba1.len)
                THEN Error("reserved header tail is not all empty")
                ELSE Header(header_size, first_usable_lba, last_usable_lba,
                            entries, entry_size, table_crc)

(***************************************************************************)
(* The entry table and its entries.                                        *)
(***************************************************************************)
\* gpt.rs 160-161: smallvec![0u8; 24576] truncated to entry_size * entries;
\* truncate leaves a vector that is already shorter as it is
read__table_len(entry_size, entries) ==
    IF BigLe(TableBytes(entry_size, entries), BigOfInt(TABLE_BACKING, 4))
    THEN BigToInt(TableBytes(entry_size, entries))
    ELSE TABLE_BACKING

\* lib.rs 216: vec![0u8; entry_size * entries]
read_gpt_table_len(entry_size, entries) == entry_size * entries

\* table_crc != checksum(&table)
table_crc_mismatch(table_crc, table) == table_crc # checksum(table, 0, table.len)

RECURSIVE take_while_nonzero(_)
take_while_nonzero(units) ==
    IF units = << >> \/ Head(units) = 0 THEN << >>
    ELSE <<Head(units)>> \o take_while_nonzero(Tail(units))

\* the u16 read from the two bytes of b at off
U16At(b, off) == At(b, off) + 256 * At(b, off + 1)

\* gpt.rs 189-191: the 36 code units of the name field of the entry at base
read__name_units(table, base) == [idx \in 1..36 |-> U16At(table, base + 56 + 2 * (idx - 1))]

\* gpt.rs 189-195: the name of the entry at base, a list of u16
read__name(table, base) == take_while_nonzero(read__name_units(table, base))

\* lib.rs 243-246: the u16 values read at name_data[idx..], idx in 0..32
read_gpt_name_units(table, base) == [idx \in 1..32 |-> U16At(table, base + 56 + (idx - 1))]

IsHighSurrogate(u) == 55296 <= u /\ u <= 56319

IsLowSurrogate(u) == 56320 <= u /\ u <= 57343

\* String::from_utf16: the code points, or <<"invalid">> for a lone surrogate
RECURSIVE from_utf16(_)
from_utf16(units) ==
    IF units = << >> THEN [ok |-> TRUE, val |-> << >>]
    ELSE LET u == Head(units)
         IN  IF IsLowSurrogate(u) THEN [ok |-> FALSE]
             ELSE IF IsHighSurrogate(u)
             THEN IF Len(units) >= 2 /\ IsLowSurrogate(units[2])
                  THEN LET rest == from_utf16(Tail(Tail(units)))
                       IN  IF rest.ok
                           THEN [ok |-> TRUE,
                                 val |-> <<65536 + (u - 55296) * 1024 + (units[2] - 56320)>>
                                         \o rest.val]
                           ELSE rest
                  ELSE [ok |-> FALSE]
             ELSE LET rest == from_utf16(Tail(units))
                  IN  IF rest.ok THEN [ok |-> TRUE, val |-> <<u>> \o rest.val] ELSE rest

\* lib.rs 243-253: the name of the entry at base, a String, or the error
read_gpt_name(table, base) == from_utf16(take_while_nonzero(read_gpt_name_units(table, base)))

GPTAttributes(type_uuid, partition_uuid, attributes, name) ==
    [tag |-> "GPT", type_uuid |-> type_uuid, partition_uuid |-> partition_uuid,
     attributes |-> attributes, name |-> name]

\* a u64 product a * m: exact when it is below 2^64; otherwise a build with
\* overflow checks panics and one without wraps
MulU64Outcomes(a, m) ==
    IF Fits(a, 8) /\ Fits(BigMulInt(Wrap(a, 8), m), 8)
    THEN {[ok |-> TRUE, val |-> Wrap(BigMulInt(a, m), 8)]}
    ELSE {[ok |-> FALSE], [ok |-> TRUE, val |-> Wrap(BigMulInt(Wrap(a, 8), m), 8)]}

\* first_lba > last_lba || first_lba < first_usable_lba || last_lba > last_usable_lba
entry_out_of_range(first_lba, last_lba, first_usable_lba, last_usable_lba) ==
    \/ BigLt(last_lba, first_lba)
    \/ BigLt(first_lba, first_usable_lba)
    \/ BigLt(last_usable_lba, last_lba)

\* The extents of an entry: the set of outcomes of
\*   first_byte: first_lba * sector_size, len: (last_lba - first_lba + 1) * sector_size
entry_extents(first_lba, last_lba, sector_size) ==
    LET sectors == BigAdd(BigSub(last_lba, first_lba), <<1>>)
    IN  {[fb |-> f, len |-> l] :
            f \in MulU64Outcomes(first_lba, sector_size),
            l \in MulU64Outcomes(sectors, sector_size)}

\* One turn of the loop over the entries (gpt.rs 170-208, lib.rs 224-266) for
\* slot id: the set of its outcomes, each "Skip", "Part" (the partition
\* pushed), an error or a panic.  name is the name of the entry, [ok, val].
decode_entry(table, hdr, sector_size, id, name, range_error, name_error) ==
    LET base      == id * hdr.entry_size
        first_lba == read_u64(table, base + 32)
        last_lba  == read_u64(table, base + 40)
    IN  IF (id + 1) * hdr.entry_size > table.len
        THEN {Panic("&table[id * entry_size..(id + 1) * entry_size]: out of bounds")}
        ELSE IF all_zero(table, base, base + 16) THEN {[kind |-> "Skip"]}
        ELSE IF entry_out_of_range(first_lba, last_lba,
                                   hdr.first_usable_lba, hdr.last_usable_lba)
        THEN {range_error}
        ELSE IF ~name.ok THEN {name_error}
        ELSE {IF x.fb.ok /\ x.len.ok
              THEN [kind |-> "Part",
                    part |-> Partition(id, x.fb.val, x.len.val,
                               GPTAttributes(Digits(table, base, base + 16),
                                             Digits(table, base + 16, base + 32),
                                             Digits(table, base + 48, base + 56),
                                             name.val))]
              ELSE Panic("attempt to multiply with overflow")
              : x \in entry_extents(first_lba, last_lba, sector_size)}

\* gpt.rs 170-208
read__entry(table, hdr, sector_size, id) ==
    decode_entry(table, hdr, sector_size, id,
                 [ok |-> TRUE, val |-> read__name(table, id * hdr.entry_size)],
                 Error("PartitionEntryOutOfRange"), Error(""))

\* lib.rs 224-266
read_gpt_entry(table, hdr, sector_size, id) ==
    decode_entry(table, hdr, sector_size, id,
                 read_gpt_name(table, id * hdr.entry_size),
                 Error("partition entry is out of range"),
                 ErrorWith("partition has an invalid name", <<id>>))

(***************************************************************************)
(* The disk images the decoders are run on.  An image is described by the  *)
(* fields written to it; the fields are laid out as on a real disk: boot   *)
(* sector at 0, GPT header at sector_size, entry table after the header    *)
(* sector.  The CRC fields are filled in with the CRC-32 of what was       *)
(* written, so that an image is accepted unless its description says what  *)
(* is wrong with it.                                                       *)
(***************************************************************************)
\* largest number of described entries in the entry table of an image
MaxEntries == 2

U64(n) == BigOfInt(n, 8)

U32(n) == BigOfInt(n, 4)

Repeat(v, n) == [i \in 1..n |-> v]

\* a 16-byte MBR entry
MbrEntry(status, type_code, first_lba, sectors) ==
    <<status, 254, 255, 255, type_code, 254, 255, 255>> \o first_lba \o sectors

MbrEmpty == Repeat(0, 16)

\* the entries of the ubuntu-raspi3 image of the tests
MbrBoot == MbrEntry(128, 12, U32(8192), U32(262144))

MbrLinux == MbrEntry(0, 131, U32(270336), <<0, 16, 115, 0>>)

\* protective entries: the whole disk, and a tiny disk of 8 sectors
MbrProtective == MbrEntry(0, 238, U32(1), <<255, 255, 255, 255>>)

MbrProtectiveTiny == MbrEntry(0, 238, U32(1), U32(7))

\* 0xEE but bootable, and 0xEE starting beyond 16 KiB
MbrProtectiveBoot == MbrEntry(128, 238, U32(1), <<255, 255, 255, 255>>)

MbrProtectiveFar == MbrEntry(0, 238, U32(33), <<255, 255, 255, 255>>)

\* 0xEE that begins at LBA 0: the guess of the sector size is 0
MbrProtectiveZero == MbrEntry(0, 238, U32(0), <<255, 255, 255, 255>>)

\* a status byte that is neither 0x00 nor 0x80, in an empty and in a used slot
MbrBadEmpty == MbrEntry(1, 0, U32(0), U32(0))

MbrBadUsed == MbrEntry(127, 131, U32(2048), U32(2048))

\* a boot sector: four entries and the two signature bytes
BootSector(b, slots, sig) ==
    WithBytes(WithBytes(WithBytes(WithBytes(WithBytes(b,
        446, slots[1]), 462, slots[2]), 478, slots[3]), 494, slots[4]), 510, sig)

\* a GPT entry: type UUID (all bytes t), partition UUID, first and last
\* LBA, attribute bits, and the 36 code units of the name field
GptEntry(t, first_lba, last_lba, units) ==
    [type |-> t, first |-> first_lba, last |-> last_lba, units |-> units]

RECURSIVE UnitBytes(_)
UnitBytes(units) ==
    IF units = << >> THEN << >>
    ELSE <<Head(units) % 256, Head(units) \div 256>> \o UnitBytes(Tail(units))

GptEntryBytes(e) ==
    Repeat(e.type, 16) \o Repeat(IF e.type = 0 THEN 0 ELSE 16 + e.type, 16)
    \o e.first \o e.last
    \o (IF e.type = 0 THEN Repeat(0, 8) ELSE <<1, 0, 0, 0, 0, 0, 0, 128>>)
    \o UnitBytes(e.units)

EZero == GptEntry(0, U64(0), U64(0), << >>)

\* an unused slot (zero type UUID) whose other fields are not zero
EZeroJunk == GptEntry(0, U64(2000), U64(5), <<65>>)

EGood == GptEntry(1, U64(34), U64(40), <<97, 98>>)

\* a name of 36 code units, none of them zero
EGoodFull == GptEntry(2, U64(41), U64(1000), [i \in 1..36 |-> 48 + i])

EBackward == GptEntry(3, U64(50), U64(49), <<98>>)

ELow == GptEntry(4, U64(33), U64(60), <<99>>)

EHigh == GptEntry(5, U64(60), U64(1001), <<100>>)

\* code units after the first zero unit
EZeroInName == GptEntry(6, U64(100), U64(200), <<97, 0, 98>>)

\* no code unit at all, with non-ASCII units, and with a lone surrogate
ENoName == GptEntry(7, U64(201), U64(201), << >>)

ENonAscii == GptEntry(8, U64(300), U64(400), <<26481, 20140, 37117>>)

ESurrogate == GptEntry(9, U64(500), U64(600), <<55296>>)

EntryTemplates ==
    {EZero, EZeroJunk, EGood, EGoodFull, EBackward, ELow, EHigh, EZeroInName,
     ENoName, ENonAscii, ESurrogate}

\* the description of a well-formed image with no entries
BaseImage ==
    [ss |-> 512, hsize |-> 92, ext |-> << >>, tail |-> << >>,
     sig |-> EFI_PART, rev |-> <<0, 0, 1, 0>>, resv |-> U32(0), cur |-> U64(1),
     first |-> U64(34), last |-> U64(1000), start |-> U64(2),
     nent |-> 0, esize |-> 128, ents |-> << >>, tcrc |-> "ok",
     mbr |-> <<MbrProtective, MbrEmpty, MbrEmpty, MbrEmpty>>, bootsig |-> <<85, 170>>,
     mut |-> << >>]

\* the bytes of the entry table that the header announces, when that is a
\* table the image holds
ImageTableLen(p) == IF p.nent <= 1024 /\ p.esize <= 1024 THEN p.nent * p.esize ELSE 0

RECURSIVE WithEntries(_, _, _, _)
WithEntries(b, off, esize, ents) ==
    IF ents = << >> THEN b
    ELSE WithEntries(WithBytes(b, off + Head(ents)[1] * esize, GptEntryBytes(Head(ents)[2])),
                     off, esize, Tail(ents))

\* the stored table CRC: of the whole table, of the part of it that fits
\* the backing array of gpt.rs, or a wrong one
ImageTableCrc(p, disk) ==
    LET from == 2 * p.ss
        crc  == checksum(disk, from, from + ImageTableLen(p))
    IN  IF p.tcrc = "ok" THEN crc
        ELSE IF p.tcrc = "backing"
        THEN checksum(disk, from, from + Min(ImageTableLen(p), TABLE_BACKING))
        ELSE <<crc[1], crc[2], Xor8(crc[3], 4), crc[4]>>

ImageHeaderBytes(p, tcrc) ==
    p.sig \o p.rev \o U32(p.hsize) \o <<0, 0, 0, 0>> \o p.resv \o p.cur
    \o U64(2000) \o p.first \o p.last \o Repeat(171, 16) \o p.start
    \o U32(p.nent) \o U32(p.esize) \o tcrc \o p.ext

\* the image: a disk of 2 * ss + table + one more sector bytes
Image(p) ==
    LET len    == 2 * p.ss + ImageTableLen(p) + p.ss
        d0     == IF p.ss >= 512
                  THEN BootSector(Zeros(len), p.mbr, p.bootsig) ELSE Zeros(len)
        d1     == WithEntries(d0, 2 * p.ss, p.esize, p.ents)
        d2     == WithBytes(d1, p.ss, ImageHeaderBytes(p, ImageTableCrc(p, d1)))
        d3     == WithBytes(d2, p.ss + p.hsize, p.tail)
        crc    == checksum(d3, p.ss, p.ss + Min(p.hsize, p.ss))
        d4     == WithBytes(d3, p.ss + 16, crc)
    IN  IF p.mut = << >> THEN d4
        ELSE WithByte(d4, p.ss + p.mut[1], Xor8(At(d4, p.ss + p.mut[1]), p.mut[2]))

(***************************************************************************)
(* The calls that are made.                                                *)
(***************************************************************************)
Modern == "Modern"

Never == "Never"

RevisionOne == "RevisionOne"

GuessOrAssume == [kind |-> "GuessOrAssume"]

Known(size) == [kind |-> "Known", size |-> size]

Options(mbr, gpt, ss) == [mbr |-> mbr, gpt |-> gpt, sector_size |-> ss]

\* Options::default()
DefaultOptions == Options(Modern, RevisionOne, GuessOrAssume)

\* bit masks xor-ed into one byte of a header to change it
MutationMasks == {1, 128}

\* boot sectors without a GPT behind them
MbrSlot0 ==
    {MbrEmpty, MbrBoot, MbrProtective, MbrProtectiveTiny, MbrProtectiveBoot,
     MbrProtectiveFar, MbrBadEmpty}

MbrSlotN == {MbrEmpty, MbrLinux, MbrBadUsed}

BootSigs == {<<85, 170>>, <<85, 0>>, <<0, 170>>}

MbrImages ==
    {[BaseImage EXCEPT !.sig = Repeat(0, 8), !.mbr = <<a, b, c, d>>] :
        a \in MbrSlot0, b \in MbrSlotN, c \in MbrSlotN \cup {MbrBoot},
        d \in {MbrEmpty, MbrLinux, MbrBadEmpty}}
    \cup {[BaseImage EXCEPT !.sig = Repeat(0, 8), !.bootsig = g,
                            !.mbr = <<a, MbrEmpty, MbrEmpty, MbrEmpty>>] :
            a \in {MbrBoot, MbrProtective, MbrBadUsed, MbrBadEmpty}, g \in BootSigs}

MbrOptions ==
    {Options(m, g, ss) : m \in {Modern, Never}, g \in {RevisionOne, Never},
                         ss \in {GuessOrAssume}}

\* the entries that come before the last one of a table
PrefixTemplates == {EZero, EGood, ESurrogate}

\* the tables of at most n entries, each entry at the slot of its index
RECURSIVE EntryLists(_)
EntryLists(n) ==
    IF n = 0 THEN {<< >>}
    ELSE LET prefixes == {l \in EntryLists(n - 1) :
                            /\ Len(l) = n - 1
                            /\ \A i \in 1..Len(l) : l[i][2] \in PrefixTemplates}
         IN  EntryLists(n - 1)
             \cup {Append(l, <<Len(l), e>>) : l \in prefixes, e \in EntryTemplates}

EntryImages ==
    {[BaseImage EXCEPT !.nent = Len(l), !.ents = l] : l \in EntryLists(MaxEntries)}

\* a header of 100 bytes, the last 8 of them not zero
Base100 == [BaseImage EXCEPT !.hsize = 100, !.ext = <<1, 2, 3, 4, 5, 6, 7, 8>>,
                             !.nent = 1, !.ents = <<<<0, EGood>>>>]

\* one byte of an accepted header changed; every offset of the header but
\* those of its CRC field
MutatedImages ==
    {[b EXCEPT !.mut = <<pos, m>>] :
        b \in {BaseImage, Base100},
        pos \in (0..15) \cup (20..99), m \in MutationMasks}

\* u64::MAX / 512
MaxLba512 == <<255, 255, 255, 255, 255, 255, 127, 0>>

\* entry tables longer than the backing array of gpt.rs (193 * 128 > 24576)
BigTable == [BaseImage EXCEPT !.nent = 193, !.first = U64(50),
                           !.ents = <<<<1, EZeroInName>>>>]

\* one field of the header wrong, the header CRC right
FieldImages ==
    {[BaseImage EXCEPT !.sig = <<69, 70, 73, 32, 80, 65, 82, 85>>],
     [BaseImage EXCEPT !.rev = <<0, 0, 2, 0>>],
     [BaseImage EXCEPT !.hsize = 91],
     [BaseImage EXCEPT !.resv = U32(1)],
     [BaseImage EXCEPT !.cur = U64(2)],
     [BaseImage EXCEPT !.first = U64(1001)],
     [BaseImage EXCEPT !.last = BigAdd(MaxLba512, <<1>>)],
     [BaseImage EXCEPT !.start = U64(3)],
     [BaseImage EXCEPT !.nent = 65536],
     [BaseImage EXCEPT !.esize = 65536],
     [BaseImage EXCEPT !.esize = 127],
     [BaseImage EXCEPT !.nent = 128, !.first = U64(33)],
     [BaseImage EXCEPT !.tail = <<7>>],
     [BaseImage EXCEPT !.tcrc = "bad", !.nent = 1, !.ents = <<<<0, EGood>>>>],
     [BaseImage EXCEPT !.nent = 128],
     [BaseImage EXCEPT !.nent = 4, !.esize = 256, !.ents = <<<<3, EGood>>>>],
     \* a disk of the largest size the header check lets through
     [BaseImage EXCEPT !.last = MaxLba512, !.nent = 2,
                       !.ents = <<<<0, EGood>>, <<1, GptEntry(1, U64(41), MaxLba512, <<122>>)>>>>],
     Base100,
     BigTable,
     [BigTable EXCEPT !.tcrc = "backing",
                      !.ents = <<<<1, EZeroInName>>, <<192, EHigh>>>>]}

\* two fields of the header wrong, the header CRC right
PairImages ==
    {[BaseImage EXCEPT !.sig = <<69, 70, 73, 32, 80, 65, 82, 85>>, !.rev = <<0, 0, 2, 0>>],
     [BaseImage EXCEPT !.rev = <<0, 0, 2, 0>>, !.hsize = 91],
     [BaseImage EXCEPT !.hsize = 91, !.resv = U32(1)],
     [BaseImage EXCEPT !.hsize = 600, !.resv = U32(1)],
     [BaseImage EXCEPT !.resv = U32(1), !.cur = U64(2)],
     [BaseImage EXCEPT !.cur = U64(2), !.first = U64(1001)],
     [BaseImage EXCEPT !.first = BigAdd(MaxLba512, <<2>>), !.last = BigAdd(MaxLba512, <<1>>)],
     [BaseImage EXCEPT !.last = BigAdd(MaxLba512, <<1>>), !.start = U64(3)],
     [BaseImage EXCEPT !.start = U64(3), !.nent = 65536],
     [BaseImage EXCEPT !.nent = 65536, !.esize = 65536],
     [BaseImage EXCEPT !.esize = 65536, !.tail = <<7>>],
     [BaseImage EXCEPT !.esize = 127, !.tail = <<7>>],
     [BaseImage EXCEPT !.nent = 128, !.first = U64(33), !.tail = <<7>>],
     [BaseImage EXCEPT !.tail = <<7>>, !.tcrc = "bad", !.nent = 1, !.ents = <<<<0, EGood>>>>],
     [BaseImage EXCEPT !.tcrc = "bad", !.nent = 1, !.ents = <<<<0, EBackward>>>>]}

GptImages == EntryImages \cup MutatedImages \cup FieldImages \cup PairImages

\* the calls: open(reader, options) and gpt::read(reader, sector_size)
OpenCall(p, o) == [fn |-> "open", image |-> p, options |-> o, sector_size |-> 0]

ReadCall(p, ss) == [fn |-> "gpt::read", image |-> p, options |-> DefaultOptions,
                    sector_size |-> ss]

\* sector sizes other than 512: none, below a header, above the buffer
SectorSizes == {0, 8, 91, 520, 1024}

Calls ==
    {OpenCall(p, o) : p \in MbrImages, o \in MbrOptions}
    \cup {OpenCall(p, DefaultOptions) : p \in GptImages}
    \cup {OpenCall(p, Options(m, g, Known(512))) :
            p \in {BaseImage, Base100}, m \in {Modern, Never}, g \in {RevisionOne, Never}}
    \cup {ReadCall(p, ss) : p \in {BaseImage}, ss \in SectorSizes}
    \cup {OpenCall(p, Options(Modern, RevisionOne, Known(ss))) :
            p \in {BaseImage}, ss \in SectorSizes}
    \cup {OpenCall([BaseImage EXCEPT !.mbr[1] = MbrProtectiveZero], DefaultOptions)}
    \cup {ReadCall(p, 512) : p \in GptImages}

VARIABLES
    call,          \* the call that is running: its function, image and arguments
    reader,        \* the source: [disk, pos]
    io,            \* the reads made of the source so far: <<offset, bytes>>
    pc,            \* where the call is
    dec,           \* the GPT decoder running: "read_" (gpt.rs) or "read_gpt" (lib.rs)
    header_table,  \* open: the MBR table
    sector_size,   \* the decoder's sector_size
    lba1,          \* the decoder's header sector
    hdr,           \* the decoder's locals once the header checks have passed
    table,         \* the decoder's entry table
    id,            \* the decoder's loop counter
    ret,           \* the decoder's list of partitions so far
    result         \* what the call returned

diskvars == <<call, reader, io, pc, dec, header_table, sector_size, lba1, hdr,
              table, id, ret, result>>

vars == <<rrvars, diskvars>>

NoResult == [kind |-> "None"]

NoHeader == [kind |-> "None"]

IoError(e) == Error(e)

\* the calls on a disk image; the RangeReader is not used
RRIdle ==
    /\ inner = [data |-> << >>, pos |-> 0]
    /\ first_byte = 0
    /\ end = 0
    /\ last = [op |-> "none"]

DiskInit ==
    \E c \in Calls :
        /\ RRIdle
        /\ call = c
        /\ reader = [disk |-> Image(c.image), pos |-> 0]
        /\ io = << >>
        /\ pc = IF c.fn = "open" THEN "open" ELSE "gpt_seek"
        /\ dec = IF c.fn = "open" THEN "none" ELSE "read_"
        /\ header_table = << >>
        /\ sector_size = c.sector_size
        /\ lba1 = Zeros(0)
        /\ hdr = NoHeader
        /\ table = Zeros(0)
        /\ id = 0
        /\ ret = << >>
        /\ result = NoResult

\* the call returns r
Return(r) ==
    /\ result' = r
    /\ pc' = "done"

bad_signature_first_byte_only(disc_header) == 85 # At(disc_header, 510)

\* open (lib.rs 105): the boot sector does not end with 0x55 0xAA
bad_signature(disc_header) ==
    85 # At(disc_header, 510) \/ 170 # At(disc_header, 511)

decode_gpt_always(options) == TRUE

\* open (lib.rs 117-126): options.gpt selects the GPT decoder
decode_gpt(options) == options.gpt = RevisionOne

\* open (lib.rs 97-110): the boot sector is read and decoded
OpenBootSector ==
    /\ UNCHANGED rrvars
    /\ pc = "open"
    /\ UNCHANGED <<call, dec, sector_size, lba1, hdr, table, id, ret>>
    /\ IF reader.disk.len < 512
       THEN /\ Return(IoError("UnexpectedEof"))
            /\ io' = Append(io, <<0, reader.disk.len>>)
            /\ reader' = [reader EXCEPT !.pos = reader.disk.len]
            /\ UNCHANGED header_table
       ELSE LET disc_header == Window(reader.disk, 0, 512, 512)
                parsed      == parse_partition_table(disc_header, 512)
            IN  /\ reader' = [reader EXCEPT !.pos = 512]
                /\ io' = Append(io, <<0, 512>>)
                /\ IF bad_signature(disc_header)
                   THEN Return(Error("NotFound")) /\ UNCHANGED header_table
                   ELSE IF ~parsed.ok
                   THEN /\ Return(ErrorWith(parsed.err.what,
                                            <<parsed.err.entry_id, parsed.err.status>>))
                        /\ UNCHANGED header_table
                   ELSE /\ header_table' = parsed.val
                        /\ pc' = "open_match"
                        /\ UNCHANGED result

\* open (lib.rs 112-127): the table is returned, or the GPT decoder is called
OpenMatch ==
    /\ UNCHANGED rrvars
    /\ pc = "open_match"
    /\ UNCHANGED <<call, reader, io, header_table, lba1, hdr, table, id, ret>>
    /\ IF Len(header_table) = 1 /\ protective(header_table[1])
       THEN IF ~decode_gpt(call.options)
            THEN Return(OkParts(header_table)) /\ UNCHANGED <<dec, sector_size>>
            ELSE /\ sector_size' = IF call.options.sector_size.kind = "Known"
                                   THEN call.options.sector_size.size
                                   ELSE BigToInt(header_table[1].first_byte)
                 /\ dec' = "read_gpt"
                 /\ pc' = "gpt_seek"
                 /\ UNCHANGED result
       ELSE Return(OkParts(header_table)) /\ UNCHANGED <<dec, sector_size>>

\* read_ (gpt.rs 60-71) and read_gpt (lib.rs 133-136): the header sector is read
GptReadSector ==
    /\ UNCHANGED rrvars
    /\ pc = "gpt_seek"
    /\ UNCHANGED <<call, dec, header_table, sector_size, hdr, table, id, ret>>
    /\ IF dec = "read_" /\ sector_size > MAX_SECTOR_SIZE
       THEN /\ Return(Panic("MAX_SECTOR_SIZE is not large enough"))
            /\ reader' = [reader EXCEPT !.pos = sector_size]
            /\ UNCHANGED <<io, lba1>>
       ELSE LET buflen == IF dec = "read_" THEN MAX_SECTOR_SIZE ELSE sector_size
                left   == IF reader.disk.len > sector_size
                          THEN reader.disk.len - sector_size ELSE 0
            IN  IF left < sector_size
                THEN /\ Return(IoError("UnexpectedEof"))
                     /\ reader' = [reader EXCEPT !.pos = Max(sector_size, reader.disk.len)]
                     /\ io' = Append(io, <<sector_size, left>>)
                     /\ UNCHANGED lba1
                ELSE /\ lba1' = Window(reader.disk, sector_size, sector_size, buflen)
                     /\ reader' = [reader EXCEPT !.pos = 2 * sector_size]
                     /\ io' = Append(io, <<sector_size, sector_size>>)
                     /\ pc' = "gpt_header"
                     /\ UNCHANGED result

\* read_ (gpt.rs 73-155) and read_gpt (lib.rs 138-214): the header checks
GptCheckHeader ==
    /\ UNCHANGED rrvars
    /\ pc = "gpt_header"
    /\ UNCHANGED <<call, reader, io, dec, header_table, sector_size, lba1, table, id, ret>>
    /\ LET h == IF dec = "read_" THEN read__header(lba1, sector_size)
                ELSE read_gpt_header(lba1, sector_size)
       IN  IF h.kind = "Hdr"
           THEN hdr' = h /\ pc' = "gpt_table" /\ UNCHANGED result
           ELSE Return(h) /\ UNCHANGED hdr

\* read_ (gpt.rs 160-163) and read_gpt (lib.rs 216-217): the table is read
GptReadTable ==
    /\ UNCHANGED rrvars
    /\ pc = "gpt_table"
    /\ UNCHANGED <<call, dec, header_table, sector_size, lba1, hdr, id, ret>>
    /\ LET len  == IF dec = "read_" THEN read__table_len(hdr.entry_size, hdr.entries)
                   ELSE read_gpt_table_len(hdr.entry_size, hdr.entries)
           left == IF reader.disk.len > reader.pos
                   THEN reader.disk.len - reader.pos ELSE 0
       IN  IF left < len
           THEN /\ Return(IoError("UnexpectedEof"))
                /\ reader' = [reader EXCEPT !.pos = Max(reader.pos, reader.disk.len)]
                /\ io' = Append(io, <<reader.pos, left>>)
                /\ UNCHANGED table
           ELSE /\ table' = Window(reader.disk, reader.pos, len, len)
                /\ reader' = [reader EXCEPT !.pos = reader.pos + len]
                /\ io' = Append(io, <<reader.pos, len>>)
                /\ pc' = "gpt_crc"
                /\ UNCHANGED result

\* read_ (gpt.rs 165-169) and read_gpt (lib.rs 219-223): the table's CRC
GptCheckTable ==
    /\ UNCHANGED rrvars
    /\ pc = "gpt_crc"
    /\ UNCHANGED <<call, reader, io, dec, header_table, sector_size, lba1, hdr, table,
                   id, ret>>
    /\ IF table_crc_mismatch(hdr.table_crc, table)
       THEN Return(IF dec = "read_" THEN ErrorWith("InvalidTableCRC", <<table.len>>)
                   ELSE Error("table crc invalid"))
       ELSE pc' = "gpt_entries" /\ UNCHANGED result

\* read_ (gpt.rs 170-208) and read_gpt (lib.rs 224-266): one turn of the loop
GptEntryStep ==
    /\ UNCHANGED rrvars
    /\ pc = "gpt_entries"
    /\ id < hdr.entries
    /\ UNCHANGED <<call, reader, io, dec, header_table, sector_size, lba1, hdr, table>>
    /\ \E o \in (IF dec = "read_" THEN read__entry(table, hdr, sector_size, id)
                 ELSE read_gpt_entry(table, hdr, sector_size, id)) :
          IF o.kind = "Skip"
          THEN id' = id + 1 /\ UNCHANGED <<ret, pc, result>>
          ELSE IF o.kind = "Part"
          THEN id' = id + 1 /\ ret' = Append(ret, o.part) /\ UNCHANGED <<pc, result>>
          ELSE Return(o) /\ UNCHANGED <<id, ret>>

\* read_ (gpt.rs 210) and read_gpt (lib.rs 268): Ok(ret)
GptReturn ==
    /\ UNCHANGED rrvars
    /\ pc = "gpt_entries"
    /\ id = hdr.entries
    /\ Return(OkParts(ret))
    /\ UNCHANGED <<call, reader, io, dec, header_table, sector_size, lba1, hdr, table,
                   id, ret>>

DiskNext ==
    \/ OpenBootSector
    \/ OpenMatch
    \/ GptReadSector
    \/ GptCheckHeader
    \/ GptReadTable
    \/ GptCheckTable
    \/ GptEntryStep
    \/ GptReturn

(***************************************************************************)
(* The calls on a RangeReader.                                             *)
(***************************************************************************)
\* the RangeReader on its own; no call on a disk image is running
DiskIdle ==
    /\ call = [fn |-> "none"]
    /\ reader = [disk |-> Zeros(0), pos |-> 0]
    /\ io = << >>
    /\ pc = "idle"
    /\ dec = "none"
    /\ header_table = << >>
    /\ sector_size = 0
    /\ lba1 = Zeros(0)
    /\ hdr = NoHeader
    /\ table = Zeros(0)
    /\ id = 0
    /\ ret = << >>
    /\ result = NoResult

\* RangeReader::new(inner, first_byte, len) over a fresh source
RRInit ==
    \E fb \in 0..MaxFirst, len \in 0..MaxLen :
        /\ DiskIdle
        /\ first_byte = fb
        /\ end = fb + len
        /\ inner = [data |-> SrcData, pos |-> fb]
        /\ last = [op |-> "new", arg |-> len, at |-> fb, from |-> fb,
                   data |-> << >>, ret |-> Ok(0)]

\* a RangeReader has been built: its methods can be called
Constructed == last.op # "none"

\* RangeReader::read(buf), buf.len() = k
Read(k) ==
    Constructed /\
    LET current_real == inner.pos
    IN  IF ~check_valid_position(first_byte, end, current_real)
        THEN /\ last' = [op |-> "read", arg |-> k, at |-> current_real,
                         from |-> current_real, data |-> << >>,
                         ret |-> Err("IllegalCursorPosition")]
             /\ UNCHANGED <<inner, first_byte, end, diskvars>>
        ELSE LET want == available(end, current_real, k)
                 can  == Min(want, Remaining(inner.data, current_real))
             IN  \E n \in (IF can = 0 THEN {0} ELSE 1..can) :
                   /\ inner' = [inner EXCEPT !.pos = current_real + n]
                   /\ last' = [op |-> "read", arg |-> k, at |-> current_real,
                               from |-> current_real,
                               data |-> Bytes(inner.data, current_real, n),
                               ret |-> Ok(n)]
                   /\ UNCHANGED <<first_byte, end, diskvars>>

\* RangeReader::read_exact(buf), buf.len() = k
ReadExact(k) ==
    Constructed /\
    LET current_real == inner.pos
        end_real     == current_real + k
        illegal      == [op |-> "read_exact", arg |-> k, at |-> current_real,
                         from |-> current_real, data |-> << >>,
                         ret |-> Err("IllegalCursorPosition")]
    IN  IF ~check_valid_position(first_byte, end, current_real)
        THEN last' = illegal /\ UNCHANGED <<inner, first_byte, end, diskvars>>
        ELSE IF ~check_valid_position(first_byte, end, end_real)
        THEN last' = illegal /\ UNCHANGED <<inner, first_byte, end, diskvars>>
        ELSE LET rem == Remaining(inner.data, current_real)
             IN  IF rem >= k
                 THEN /\ inner' = [inner EXCEPT !.pos = current_real + k]
                      /\ last' = [op |-> "read_exact", arg |-> k, at |-> current_real,
                                  from |-> current_real,
                                  data |-> Bytes(inner.data, current_real, k),
                                  ret |-> Ok(0)]
                      /\ UNCHANGED <<first_byte, end, diskvars>>
                 ELSE \* the source ends first: it fills what it has and fails
                      /\ inner' = [inner EXCEPT !.pos = current_real + rem]
                      /\ last' = [op |-> "read_exact", arg |-> k, at |-> current_real,
                                  from |-> current_real,
                                  data |-> Bytes(inner.data, current_real, rem),
                                  ret |-> Err("Inner(UnexpectedEof)")]
                      /\ UNCHANGED <<first_byte, end, diskvars>>

relative_absolute(new_pos, fb) == new_pos

\* seek: Ok(new_pos - self.first_byte)
relative(new_pos, fb) == new_pos - fb

\* the rest of seek once the source has been moved to new_pos
SeekTo(action, new_pos) ==
    /\ Constructed
    /\ new_pos <= MaxPos
    /\ inner' = [inner EXCEPT !.pos = new_pos]
    /\ last' = [op |-> "seek", arg |-> action, at |-> inner.pos, from |-> new_pos,
                data |-> << >>,
                ret |-> IF check_valid_position(first_byte, end, new_pos)
                        THEN Ok(relative(new_pos, first_byte))
                        ELSE Err("IllegalCursorPosition")]
    /\ UNCHANGED <<first_byte, end, diskvars>>

\* seek fails before the source is moved
SeekFails(action, e) ==
    /\ Constructed
    /\ last' = [op |-> "seek", arg |-> action, at |-> inner.pos, from |-> inner.pos,
                data |-> << >>, ret |-> Err(e)]
    /\ UNCHANGED <<inner, first_byte, end, diskvars>>

\* RangeReader::seek(SeekFrom::Start(dist))
SeekStart(dist) == SeekTo(<<"Start", dist>>, first_byte + dist)

\* RangeReader::seek(SeekFrom::Current(dist)): passed to the source as it is
SeekCurrent(dist) ==
    IF inner.pos + dist < 0
    THEN SeekFails(<<"Current", dist>>, "Inner(InvalidInput)")
    ELSE SeekTo(<<"Current", dist>>, inner.pos + dist)

\* RangeReader::seek(SeekFrom::End(dist))
SeekEnd(dist) ==
    IF -dist < 0 THEN SeekFails(<<"End", dist>>, "CantSeekPastEnd")
    ELSE IF end - (-dist) < 0 THEN SeekFails(<<"End", dist>>, "CantSeekBeforeStart")
    ELSE SeekTo(<<"End", dist>>, end - (-dist))

RRNext ==
    \/ \E k \in 0..MaxBuf : Read(k)
    \/ \E k \in 0..MaxBuf : ReadExact(k)
    \/ \E dist \in 0..(MaxLen + 1) : SeekStart(dist)
    \/ \E dist \in (-MaxDist)..MaxDist : SeekCurrent(dist)
    \/ \E dist \in (-(MaxLen + MaxFirst + 1))..1 : SeekEnd(dist)

\* C1: whatever calls were made before, every byte a read or read_exact
\* delivers is the source byte at an absolute offset in [first_byte, end);
\* a read that starts at absolute position p delivers at most
\* min(buffer length, end - p) bytes, and none at p = end.
C1_ReadsStayInRange ==
    last.op \in {"read", "read_exact"} =>
        /\ \A i \in 1..Len(last.data) :
              /\ last.from + i - 1 >= first_byte
              /\ last.from + i - 1 < end
              /\ last.data[i] = inner.data[last.from + i]
        /\ last.from = last.at
        /\ (last.op = "read" /\ last.ret.ok) =>
              /\ last.ret.val = Len(last.data)
              /\ last.ret.val <= Min(last.arg, end - last.at)
              /\ (last.at = end => last.ret.val = 0)

\* a read asked for more than the range holds and was cut short at its end
C1_Witness ==
    /\ last.op = "read" /\ last.ret.ok
    /\ last.arg > end - last.at
    /\ last.ret.val = end - last.at
    /\ last.ret.val > 0
    /\ last.at > first_byte

\* C11: seek(End(delta)) fails with CantSeekPastEnd for delta > 0, fails
\* with CantSeekBeforeStart when end - (-delta) is below first_byte, and
\* otherwise leaves the source at absolute end - (-delta).
C11_SeekEnd ==
    (last.op = "seek" /\ last.arg[1] = "End") =>
        LET delta == last.arg[2]
        IN  IF delta > 0 THEN last.ret = Err("CantSeekPastEnd")
            ELSE IF end - (-delta) < first_byte
            THEN last.ret = Err("CantSeekBeforeStart")
            ELSE last.ret.ok /\ inner.pos = end - (-delta)

\* what a step that is a seek returning Ok(r) leaves behind
SeekReturnedOk ==
    /\ last'.op = "seek"
    /\ last'.ret.ok

\* C12: a seek that returns Ok(r) has 0 <= r <= len and leaves the source
\* at first_byte + r; Start(offset) with offset <= len returns offset,
\* Current(delta) from relative position q returns q + delta; a read that
\* follows a seek that returned Ok(r) starts at first_byte + r.
C12_SeekIsRelative ==
    [][/\ SeekReturnedOk =>
            /\ 0 <= last'.ret.val
            /\ last'.ret.val <= end - first_byte
            /\ inner'.pos = first_byte + last'.ret.val
            /\ last'.arg[1] = "Current" =>
                  last'.ret.val = (inner.pos - first_byte) + last'.arg[2]
       /\ (/\ last'.op = "seek"
           /\ last'.arg[1] = "Start"
           /\ last'.arg[2] <= end - first_byte)
            => last'.ret = Ok(last'.arg[2])
       /\ (/\ last.op = "seek"
           /\ last.ret.ok
           /\ last'.op \in {"read", "read_exact"})
            => /\ last'.from = first_byte + last.ret.val
               /\ \A i \in 1..Len(last'.data) :
                     last'.data[i] = inner.data[first_byte + last.ret.val + i]
      ]_vars

\* Current(-1) from relative position 2 of a range that begins at byte 2
\* returns 1 and leaves the source at byte 3
C12_Witness ==
    /\ last.op = "seek"
    /\ last.arg = <<"Current", -1>>
    /\ first_byte = 2
    /\ last.at = 4
    /\ last.ret = Ok(1)
    /\ inner.pos = 3

\* C19: after construction and after every call on the RangeReader, the
\* cursor of the source is in [first_byte, end]; a seek that fails leaves
\* it where it was, and no read fails with IllegalCursorPosition (but for
\* a read_exact whose buffer reaches past end).
C19_CursorStaysInRange ==
    Constructed =>
        /\ first_byte <= inner.pos
        /\ inner.pos <= end
        /\ (last.op = "seek" /\ ~last.ret.ok) => inner.pos = last.at
        /\ last.op = "read" => last.ret # Err("IllegalCursorPosition")
        /\ (last.op = "read_exact" /\ last.at + last.arg <= end)
              => last.ret # Err("IllegalCursorPosition")

(***************************************************************************)
(* The specifications.                                                     *)
(***************************************************************************)
SpecRR == RRInit /\ [][RRNext]_vars

SpecDisk == DiskInit /\ [][DiskNext]_vars

Init == RRInit \/ DiskInit

Next == RRNext \/ DiskNext

Spec == Init /\ [][Next]_vars

(***************************************************************************)
(* The boot sector as its bytes say, read without the decoder.             *)
(***************************************************************************)
\* the number held little-endian in bytes off .. off+n-1 of the disk
Field(disk, off, n) == [i \in 1..n |-> At(disk, off + i - 1)]

SlotOffset(slot) == 446 + 16 * slot

\* the slots whose type code is not zero, lowest first
RECURSIVE UsedSlotsFrom(_, _)
UsedSlotsFrom(disk, slot) ==
    IF slot = 4 THEN << >>
    ELSE (IF At(disk, SlotOffset(slot) + 4) # 0 THEN <<slot>> ELSE << >>)
         \o UsedSlotsFrom(disk, slot + 1)

UsedSlots(disk) == UsedSlotsFrom(disk, 0)

StatusBytesValid(disk) == \A slot \in 0..3 : At(disk, SlotOffset(slot)) \in {0, 128}

BootSignatureValid(disk) == At(disk, 510) = 85 /\ At(disk, 511) = 170

\* open has decoded the boot sector of a disk that the claims on the MBR
\* are about
MbrDecoded ==
    /\ call.fn = "open"
    /\ pc # "open"
    /\ BootSignatureValid(reader.disk)
    /\ StatusBytesValid(reader.disk)

\* C2: a boot sector whose four status bytes are 0x00 or 0x80 decodes to
\* one partition for each slot with a non-zero type code, in slot order,
\* each with the number of its slot as id; the decoder does not fail on it.
C2_MbrSlots ==
    MbrDecoded =>
        /\ Len(header_table) = Len(UsedSlots(reader.disk))
        /\ \A i \in 1..Len(header_table) :
              header_table[i].id = UsedSlots(reader.disk)[i]
        /\ (pc = "done" /\ dec = "none") => result = OkParts(header_table)

\* slots 1 and 3 are used, slots 0 and 2 are not: the ids are 1 and 3
C2_Witness ==
    /\ MbrDecoded
    /\ UsedSlots(reader.disk) = <<1, 3>>
    /\ pc = "done"
    /\ result.kind = "Ok"
    /\ Len(result.parts) = 2
    /\ result.parts[1].id = 1
    /\ result.parts[2].id = 3

\* C3: every partition decoded from the MBR has first_byte = first LBA * 512
\* and len = sector count * 512, the two u32 fields at bytes 8..12 and
\* 12..16 of its entry; len does not include first_byte.
C3_MbrExtents ==
    MbrDecoded =>
        \A i \in 1..Len(header_table) :
            LET entry == SlotOffset(header_table[i].id)
            IN  /\ BigEq(header_table[i].first_byte,
                         BigMulInt(Field(reader.disk, entry + 8, 4), 512))
                /\ BigEq(header_table[i].len,
                         BigMulInt(Field(reader.disk, entry + 12, 4), 512))

\* the four conditions of a protective entry
ProtectiveByTheFour(p) ==
    /\ p.attributes.tag = "MBR"
    /\ p.attributes.type_code = 238
    /\ p.attributes.bootable = FALSE
    /\ p.id = 0
    /\ BigLe(p.first_byte, BigOfInt(16384, 8))

\* C4: when the MBR table is not exactly one protective entry, a call with
\* options.mbr = Never fails with a not-found error, and a call with
\* options.mbr = Modern returns the MBR table.
C4_MbrNever ==
    (/\ MbrDecoded
     /\ pc = "done"
     /\ ~(Len(header_table) = 1 /\ ProtectiveByTheFour(header_table[1])))
    => IF call.options.mbr = Never
       THEN result = Error("NotFound")
       ELSE result = OkParts(header_table)

(***************************************************************************)
(* The GPT as the bytes of the disk say, read without the decoders.        *)
(***************************************************************************)
\* a GPT decoder has returned
GptDone == pc = "done" /\ dec # "none"

\* the two decoders name the same failure differently
IsHeaderChecksumMismatch(r) ==
    r.kind = "Err" /\ r.err \in {"HeaderChecksumMismatch", "header checksum mismatch"}

IsBadEFISignature(r) ==
    r.kind = "Err" /\ r.err \in {"BadEFISignature", "bad EFI signature"}

IsUnsupportedRevision(r) ==
    r.kind = "Err" /\ r.err \in {"UnsupportedRevision", "unsupported revision"}

IsInvalidTableCRC(r) ==
    r.kind = "Err" /\ r.err \in {"InvalidTableCRC", "table crc invalid"}

IsPartitionEntryOutOfRange(r) ==
    r.kind = "Err" /\ r.err \in {"PartitionEntryOutOfRange", "partition entry is out of range"}

\* the header of the image was accepted before one byte of it was changed
MutatedHeader ==
    /\ GptDone
    /\ sector_size = 512
    /\ call.image.mut # << >>
    /\ [call.image EXCEPT !.mut = << >>] \in {BaseImage, Base100}
    /\ call.image.mut[1] < call.image.hsize

\* C5: one byte changed in the first header_size bytes of an accepted
\* header, the CRC field apart, makes the decoder fail with
\* HeaderChecksumMismatch and nothing else happens; the checks of the
\* signature and of the revision come first and answer for their own bytes.
C5_HeaderByteRejected ==
    (MutatedHeader /\ call.image.mut[1] \notin 16..19) =>
        LET at == call.image.mut[1]
        IN  \/ IsHeaderChecksumMismatch(result)
            \/ at \in 0..7 /\ IsBadEFISignature(result)
            \/ at \in 8..11 /\ IsUnsupportedRevision(result)

\* the header checks have passed and the table has been read
TableRead == dec # "none" /\ hdr.kind = "Hdr" /\ pc \in {"gpt_crc", "gpt_entries"}

\* C6: after the header checks the decoder reads exactly entry_size * entries
\* bytes at offset 2 * sector_size, and a table whose CRC does not match
\* fails with InvalidTableCRC carrying that length.
C6_TableReadExactly ==
    /\ TableRead =>
          /\ io[Len(io)] = <<2 * sector_size, hdr.entry_size * hdr.entries>>
          /\ table.len = hdr.entry_size * hdr.entries
    /\ (GptDone /\ hdr.kind = "Hdr" /\ IsInvalidTableCRC(result)) =>
          /\ call.image.tcrc # "ok"
          /\ dec = "read_" => result.info = <<hdr.entry_size * hdr.entries>>

\* the entry of slot s: where it is on disk and what it holds
EntryOffset(s) == 2 * sector_size + s * hdr.entry_size

EntryUsed(s) == \E i \in 0..15 : At(reader.disk, EntryOffset(s) + i) # 0

EntryFirstLba(s) == Field(reader.disk, EntryOffset(s) + 32, 8)

EntryLastLba(s) == Field(reader.disk, EntryOffset(s) + 40, 8)

EntryInRange(s) ==
    /\ BigLe(hdr.first_usable_lba, EntryFirstLba(s))
    /\ BigLe(EntryFirstLba(s), EntryLastLba(s))
    /\ BigLe(EntryLastLba(s), hdr.last_usable_lba)

\* the decoder has returned after it began to decode the entries
EntriesDecoded ==
    /\ GptDone
    /\ hdr.kind = "Hdr"
    /\ ~IsInvalidTableCRC(result)
    /\ ~(result.kind = "Err" /\ result.err = "UnexpectedEof")

\* C7: every partition returned comes from the used entry of the slot its
\* id names and that entry is within the usable LBAs of the header; when
\* some used entry is not, the decoder returns PartitionEntryOutOfRange.
C7_EntriesInRange ==
    EntriesDecoded =>
        /\ result.kind = "Ok" =>
              \A i \in 1..Len(result.parts) :
                  /\ result.parts[i].id \in 0..(hdr.entries - 1)
                  /\ EntryUsed(result.parts[i].id)
                  /\ EntryInRange(result.parts[i].id)
        /\ (\E s \in 0..(hdr.entries - 1) : EntryUsed(s) /\ ~EntryInRange(s))
              => IsPartitionEntryOutOfRange(result)

\* C8: first_byte + len of every partition returned is below 2^64.
C8_EndFits ==
    (pc = "done" /\ result.kind = "Ok") =>
        \A i \in 1..Len(result.parts) :
            Fits(BigAdd(result.parts[i].first_byte, result.parts[i].len), 8)

\* C9: an MBR entry is protective exactly when the four conditions hold,
\* whatever its len; open goes on to the GPT exactly for such a table.
C9_ProtectiveIffFour ==
    MbrDecoded =>
        /\ \A i \in 1..Len(header_table) :
              /\ is_protective(header_table[i]) <=> ProtectiveByTheFour(header_table[i])
              /\ protective(header_table[i]) <=> ProtectiveByTheFour(header_table[i])
        /\ (/\ pc # "open_match"
            /\ Len(header_table) = 1
            /\ call.options.gpt = RevisionOne)
              => (dec = "read_gpt" <=> ProtectiveByTheFour(header_table[1]))

\* the code units of the name field of slot s, up to the first zero unit
EntryNameUnits(s) ==
    take_while_nonzero([i \in 1..36 |->
        At(reader.disk, EntryOffset(s) + 56 + 2 * (i - 1))
        + 256 * At(reader.disk, EntryOffset(s) + 57 + 2 * (i - 1))])

\* C10: the name of every GPT partition returned is the code units of the
\* name field of its entry up to the first zero unit, 36 of them when none
\* is zero; lib.rs gives them as the text they encode.
C10_NameUnits ==
    (GptDone /\ result.kind = "Ok") =>
        \A i \in 1..Len(result.parts) :
            LET units == EntryNameUnits(result.parts[i].id)
                name  == result.parts[i].attributes.name
            IN  IF dec = "read_" THEN name = units
                ELSE from_utf16(units).ok /\ name = from_utf16(units).val

\* the slots whose status byte is neither 0x00 nor 0x80
InvalidStatusSlots(disk) ==
    {slot \in 0..3 : At(disk, SlotOffset(slot)) \notin {0, 128}}

FirstInvalidStatusSlot(disk) ==
    CHOOSE slot \in InvalidStatusSlots(disk) :
        \A other \in InvalidStatusSlots(disk) : slot <= other

\* C13: a boot sector with a status byte other than 0x00 and 0x80 makes
\* open fail with the invalid-status-code error that carries the number of
\* the slot and its status byte, and no partition is returned; the type
\* code of the slot and the slots before it make no difference.
C13_InvalidStatus ==
    (/\ call.fn = "open"
     /\ pc # "open"
     /\ BootSignatureValid(reader.disk)
     /\ ~StatusBytesValid(reader.disk))
    => LET slot == FirstInvalidStatusSlot(reader.disk)
       IN  /\ pc = "done"
           /\ result = ErrorWith("invalid status code in partition",
                                 <<slot, At(reader.disk, SlotOffset(slot))>>)
           /\ header_table = << >>
           /\ dec = "none"

\* slot 0 holds a bootable partition, slot 3 is empty (type code 0) with
\* status byte 0x01
C13_Witness ==
    /\ call.fn = "open"
    /\ pc = "done"
    /\ BootSignatureValid(reader.disk)
    /\ UsedSlots(reader.disk) = <<0>>
    /\ InvalidStatusSlots(reader.disk) = {3}
    /\ result = ErrorWith("invalid status code in partition", <<3, 1>>)

\* C14: with options.gpt = Never a boot sector with one protective entry
\* gives the MBR table of that one entry (type code 0xEE), and nothing is
\* read of the source but its first 512 bytes.
C14_GptNever ==
    (/\ MbrDecoded
     /\ pc = "done"
     /\ call.options.gpt = Never
     /\ Len(UsedSlots(reader.disk)) = 1
     /\ ProtectiveByTheFour(header_table[1]))
    => /\ result = OkParts(header_table)
       /\ Len(result.parts) = 1
       /\ result.parts[1].attributes = MBRAttributes(FALSE, 238)
       /\ io = <<<<0, 512>>>>
       /\ dec = "none"
       /\ reader.pos = 512

\* a disk with a GPT that decodes, opened with options.gpt = Never
C14_Witness ==
    /\ MbrDecoded
    /\ pc = "done"
    /\ call.options.gpt = Never
    /\ call.image = BaseImage
    /\ result.kind = "Ok"
    /\ protective(result.parts[1])
    /\ io = <<<<0, 512>>>>

\* C15: a boot sector whose bytes 510 and 511 are not 0x55 0xAA makes open
\* return NotFound, whatever its other bytes and the options; neither the
\* error of the MBR decoder nor a partition list is returned.
C15_NotFound ==
    (/\ call.fn = "open"
     /\ pc # "open"
     /\ reader.disk.len >= 512
     /\ ~BootSignatureValid(reader.disk))
    => /\ pc = "done"
       /\ result = Error("NotFound")
       /\ header_table = << >>
       /\ dec = "none"
       /\ io = <<<<0, 512>>>>

\* the signature is 0x55 0x00 and slot 0 has the status byte 0x7f
C15_Witness ==
    /\ call.fn = "open"
    /\ pc = "done"
    /\ At(reader.disk, 510) = 85
    /\ At(reader.disk, 511) = 0
    /\ 0 \in InvalidStatusSlots(reader.disk)
    /\ call.options.mbr = Never
    /\ result = Error("NotFound")

\* the names of GptError, in the order of the checks of read_
CheckOrder ==
    <<"BadEFISignature", "UnsupportedRevision", "HeaderTooShort",
      "HeaderChecksumMismatch", "UnsupportedDataInReservedField",
      "CurrentLbaMustBeOneInFirstHeader", "BackwardLbas",
      "EverythingMustBeBelowSixtyFourToThePowerOfTwo", "StartingLbaMustBeTwo",
      "EntryCountIsImplausible", "EntrySizeIsImplausiblyLarge",
      "EntrySizeIsImplausiblySmall", "FirstUsableLbaIsTooLow",
      "ReservedHeaderTailIsNotAllEmpty", "InvalidTableCRC",
      "PartitionEntryOutOfRange">>

\* the checks that the header at byte ss of the disk violates, each taken
\* by itself
HeaderViolations(disk, ss) ==
    LET sector  == Window(disk, ss, ss, MAX_SECTOR_SIZE)
        zeroed  == WithBytes(sector, 16, <<0, 0, 0, 0>>)
        hsize   == read_u32(sector, 12)
        first   == read_u64(sector, 40)
        lastlba == read_u64(sector, 48)
        nent    == read_u32(sector, 80)
        esize   == read_u32(sector, 84)
        sizes   == BigLe(nent, U16_MAX) /\ BigLe(esize, U16_MAX)
        inbuf   == BigLe(BigOfInt(92, 4), hsize) /\ BigLe(hsize, BigOfInt(MAX_SECTOR_SIZE, 4))
    IN  {n \in 1..14 :
           CASE n = 1  -> Field(disk, ss, 8) # EFI_PART
             [] n = 2  -> Field(disk, ss + 8, 4) # <<0, 0, 1, 0>>
             [] n = 3  -> BigLt(hsize, BigOfInt(92, 4))
             [] n = 4  -> IF inbuf
                          THEN header_checksum_mismatch(read_u32(sector, 16), zeroed,
                                                        BigToInt(hsize))
                          ELSE TRUE
             [] n = 5  -> ~BigEq(read_u32(sector, 20), <<0>>)
             [] n = 6  -> ~BigEq(read_u64(sector, 24), <<1>>)
             [] n = 7  -> BigLt(lastlba, first)
             [] n = 8  -> BigLt(BigDivInt(U64_MAX, ss), lastlba)
             [] n = 9  -> ~BigEq(read_u64(sector, 72), <<2>>)
             [] n = 10 -> BigLt(U16_MAX, nent)
             [] n = 11 -> BigLt(U16_MAX, esize)
             [] n = 12 -> BigLt(esize, BigOfInt(128, 4))
             [] n = 13 -> IF sizes
                          THEN BigLt(first, FirstUsableFloor(BigToInt(esize),
                                                             BigToInt(nent), ss))
                          ELSE FALSE
             [] n = 14 -> IF inbuf
                          THEN \E i \in BigToInt(hsize)..(ss - 1) : At(sector, i) # 0
                          ELSE FALSE}

\* the checks of the table and of its entries that the disk violates, for
\* a header that violates none
TableViolations ==
    (IF call.image.tcrc # "ok" THEN {15} ELSE {})
    \cup (IF \E s \in 0..(hdr.entries - 1) : EntryUsed(s) /\ ~EntryInRange(s)
          THEN {16} ELSE {})

Earliest(checks) == CHOOSE n \in checks : \A other \in checks : n <= other

\* gpt::read has returned, for a sector_size that its buffer can hold and
\* a source that was long enough for it
ReadDone ==
    /\ GptDone
    /\ dec = "read_"
    /\ sector_size > 0
    /\ sector_size <= MAX_SECTOR_SIZE
    /\ ~(result.kind = "Err" /\ result.err = "UnexpectedEof")

\* C16: read_ returns the error of the earliest check, in the order of
\* CheckOrder, that the input violates, and reads the entry table only of
\* a header that violates none of the header's checks.
C16_EarliestCheck ==
    /\ ReadDone =>
          LET hv == HeaderViolations(reader.disk, sector_size)
          IN  /\ hv # {} =>
                    /\ result.kind = "Err"
                    /\ result.err = CheckOrder[Earliest(hv)]
                    /\ Len(io) = 1
              /\ (hv = {} /\ hdr.kind = "Hdr" /\ TableViolations # {}) =>
                    /\ result.kind = "Err"
                    /\ result.err = CheckOrder[Earliest(TableViolations)]
    /\ (dec = "read_" /\ Len(io) >= 2 /\ sector_size > 0) =>
          HeaderViolations(reader.disk, sector_size) = {}

\* a decoder has accepted the header: every check of the header passed
HeaderAccepted == dec # "none" /\ hdr.kind = "Hdr" /\ sector_size > 0

\* byte offsets: where the entry table ends, where its last whole sector
\* ends, and where the usable area begins
TableEnd ==
    BigAdd(BigOfInt(2 * sector_size, 8), TableBytes(hdr.entry_size, hdr.entries))

TableWholeSectorsEnd ==
    BigMulInt(BigAdd(BigOfInt(2, 8),
                     BigDivInt(TableBytes(hdr.entry_size, hdr.entries), sector_size)),
              sector_size)

UsableStart == BigMulInt(hdr.first_usable_lba, sector_size)

TableFillsSectors == (hdr.entry_size * hdr.entries) % sector_size = 0

\* C17 as stated: the entry table of an accepted header ends at or before
\* the first usable byte, first_usable_lba * sector_size.
C17_NoOverlap ==
    HeaderAccepted => BigLe(TableEnd, UsableStart)

\* C17: the whole sectors of the entry table of an accepted header end at
\* or before the first usable byte; the table itself does when entry_size *
\* entries is a multiple of sector_size, and otherwise reaches less than
\* one sector beyond its last whole sector.
C17_WholeSectorsBelowUsable ==
    HeaderAccepted =>
        /\ BigLe(TableWholeSectorsEnd, UsableStart)
        /\ TableFillsSectors => BigLe(TableEnd, UsableStart)
        /\ BigLt(TableEnd, BigAdd(TableWholeSectorsEnd, BigOfInt(sector_size, 8)))

\* 193 entries of 128 bytes are 48 sectors and a quarter; first_usable_lba
\* is 50, and the table ends 128 bytes into that sector
C17_Witness ==
    /\ HeaderAccepted
    /\ sector_size = 512
    /\ hdr.entries = 193
    /\ hdr.entry_size = 128
    /\ hdr.first_usable_lba = U64(50)
    /\ ~TableFillsSectors
    /\ BigLt(UsableStart, TableEnd)

\* C18: for every sector_size and every source the GPT decoder ends with
\* the partition list or with one error value; it does not abort.
C18_NeverAborts ==
    GptDone => result.kind \in {"Ok", "Err"}

====
